---- MODULE Spec2Model ----
(***************************************************************************)
(* Model of src/inference/infer.py (XFusion): the per-worker inference     *)
(* loop of the __main__ block (temporal window arithmetic, boundary mask,  *)
(* metric accumulation, report emission) and the tensor2img converter.     *)
(*                                                                         *)
(* Opaque values (pixels, psnr/aad/ssim numbers, attention weights) are    *)
(* represented by the index of the frame they belong to.  The reference    *)
(* frames are taken to be 3- or 4-dimensional, so one of the two branches  *)
(* of lines 212-215 is always taken; both fetch the same two indices.      *)
(***************************************************************************)
EXTENDS Integers, Sequences, FiniteSets

\* ---------------------------------------------------------------- bounds
MaxN == 7         \* largest len(dataset) explored
MaxSep == 2       \* largest lo_frame_sep / hi_frame_sep explored
MaxWorld == 2     \* largest world_size explored
MaxDim == 2       \* largest extent of one tensor dimension (tensor2img)
MaxRank == 5      \* largest tensor dimensionality (tensor2img)
MaxList == 2      \* longest list of tensors handed to tensor2img

VARIABLES
  len_dataset,     \* len(dataset), N
  lo_frame_sep,    \* --lo_frame_sep
  hi_frame_sep,    \* --hi_frame_sep
  gt_size2,        \* gt_size[2], the configured upper bound of the hi-res pair
  world_size,      \* second component of get_dist_info()
  cuda_available,  \* whether .cuda() succeeds
  att_width,       \* width of results['corr_score']
  pc,              \* per worker: position in __main__
  idx,             \* per worker: loop variable
  device,          \* per worker: where the model was placed
  psnrs, aads, ssims, atts, masks,   \* per worker accumulators (line 187)
  result_dict,     \* per worker: the table rebuilt at lines 254-258
  report,          \* per worker: the csv written at line 264
  artifacts,       \* per worker: png files saved at line 252
  lookups,         \* per worker: every dataset[...] index requested
  windows,         \* per worker: the windows assembled so far
  err,             \* per worker: exception that ended the run
  t_kind,          \* tensor2img: type of the argument
  t_len,           \* tensor2img: number of tensors in the argument
  t_pc,            \* tensor2img: position in the function
  t_cur,           \* tensor2img: shape of the tensor converted last
  t_out,           \* tensor2img: the array produced for t_cur
  t_result         \* tensor2img: the result list

cfgvars == <<len_dataset, lo_frame_sep, hi_frame_sep, gt_size2, world_size,
             cuda_available, att_width>>
runvars == <<pc, idx, device, psnrs, aads, ssims, atts, masks, result_dict,
             report, artifacts, lookups, windows, err>>
codecvars == <<t_kind, t_len, t_pc, t_cur, t_out, t_result>>
vars == <<cfgvars, runvars, codecvars>>

\* ------------------------------------------------------------- helpers
Max(a, b) == IF a >= b THEN a ELSE b
Min(a, b) == IF a <= b THEN a ELSE b

\* widths of the AttentionVector the engine returns (lines 255-258)
AttWidths == {4, 5}

\* the ranks get_dist_info() hands out: one worker per rank 0..world_size-1
Ranks == 0 .. (world_size - 1)

None == [defined |-> FALSE]

\* ---------------------------------------------- window arithmetic (pure)
\* line 204: max(0, int(idx - lo_frame_sep))
LqPrev(i) == Max(0, i - lo_frame_sep)

LqNextWrap(i) == (i + lo_frame_sep) % len_dataset
\* line 206: min(len(dataset)-1, int(idx + lo_frame_sep))
LqNext(i) == Min(len_dataset - 1, i + lo_frame_sep)

BlkStartOff(i) == Max(0, (i \div hi_frame_sep) * hi_frame_sep)
\* lines 208-215: max(0, int(idx//(hi_frame_sep*2)*hi_frame_sep*2))
BlkStart(i) == Max(0, ((i \div (hi_frame_sep * 2)) * hi_frame_sep) * 2)

\* lines 213/215: min(gt_size[2], int((idx//(hi_frame_sep*2)+1)*hi_frame_sep*2))
BlkEnd(i) == Min(gt_size2, (((i \div (hi_frame_sep * 2)) + 1) * hi_frame_sep) * 2)

MaskStartOnly(i) == IF i = BlkStart(i) THEN 1 ELSE 0
\* lines 217-220
Mask(i) == IF (i = BlkStart(i)) \/ (i = LqNext(i)) THEN 1 ELSE 0

LoopStartAtRank(r) == r
\* line 189: first value of range(rank+1, len(dataset), world_size)
LoopStart(r) == r + 1

\* line 189: loop test and dispatch after the range yields (or is exhausted)
LoopPc(i) == IF i < len_dataset THEN "window" ELSE "report"

\* the Frame Source answers for 0..N-1 only
InRange(i) == i \in 0 .. (len_dataset - 1)

ResultDictStale(r, ps, as, ss, at) ==
  [defined |-> TRUE, psnr |-> ps, aad |-> as, ssim |-> ss, att |-> atts[r]]
\* lines 254-258: att_all = np.vstack(atts); the table is rebuilt only for
\* width 4 or 5, otherwise the previous binding (or none) is kept
ResultDict(r, ps, as, ss, at) ==
  IF att_width \in {4, 5}
  THEN [defined |-> TRUE, psnr |-> ps, aad |-> as, ssim |-> ss, att |-> at]
  ELSE result_dict[r]

\* ------------------------------------------------------------- actions
\* lines 172-178: model placement with the try/except fallback
PlaceModel(r) ==
  /\ pc[r] = "place"
  /\ device' = [device EXCEPT ![r] = IF cuda_available THEN "cuda" ELSE "cpu"]
  /\ idx' = [idx EXCEPT ![r] = LoopStart(r)]
  /\ pc' = [pc EXCEPT ![r] = LoopPc(LoopStart(r))]
  /\ UNCHANGED <<cfgvars, codecvars, psnrs, aads, ssims, atts, masks,
                 result_dict, report, artifacts, lookups, windows, err>>

\* lines 192-202: dataset[idx] is fetched, then .cuda() raises without a GPU
BuildWindowNoCuda(r) ==
  /\ pc[r] = "window"
  /\ ~cuda_available
  /\ lookups' = [lookups EXCEPT ![r] = @ \cup {idx[r]}]
  /\ pc' = [pc EXCEPT ![r] = "aborted"]
  /\ err' = [err EXCEPT ![r] = "cuda"]
  /\ UNCHANGED <<cfgvars, codecvars, idx, device, psnrs, aads, ssims, atts,
                 masks, result_dict, report, artifacts, windows>>

\* lines 192-215 when dataset[blkEnd] is outside the Frame Source
BuildWindowIndexError(r) ==
  /\ pc[r] = "window"
  /\ cuda_available
  /\ ~InRange(BlkEnd(idx[r]))
  /\ lookups' = [lookups EXCEPT ![r] = @ \cup
        {idx[r], LqPrev(idx[r]), LqNext(idx[r]), BlkStart(idx[r]), BlkEnd(idx[r])}]
  /\ pc' = [pc EXCEPT ![r] = "aborted"]
  /\ err' = [err EXCEPT ![r] = "index"]
  /\ UNCHANGED <<cfgvars, codecvars, idx, device, psnrs, aads, ssims, atts,
                 masks, result_dict, report, artifacts, windows>>

\* lines 192-220: the window is assembled and the boundary flag appended
BuildWindow(r) ==
  /\ pc[r] = "window"
  /\ cuda_available
  /\ InRange(BlkEnd(idx[r]))
  /\ lookups' = [lookups EXCEPT ![r] = @ \cup
        {idx[r], LqPrev(idx[r]), LqNext(idx[r]), BlkStart(idx[r]), BlkEnd(idx[r])}]
  /\ windows' = [windows EXCEPT ![r] = Append(@,
        [idx |-> idx[r],
         lq |-> <<LqPrev(idx[r]), idx[r], LqNext(idx[r])>>,
         hq |-> <<BlkStart(idx[r]), BlkEnd(idx[r])>>])]
  /\ masks' = [masks EXCEPT ![r] = Append(@, Mask(idx[r]))]
  /\ pc' = [pc EXCEPT ![r] = "infer"]
  /\ UNCHANGED <<cfgvars, codecvars, idx, device, psnrs, aads, ssims, atts,
                 result_dict, report, artifacts, err>>

\* lines 222-226: the engine returns out and corr_score
Infer(r) ==
  /\ pc[r] = "infer"
  /\ pc' = [pc EXCEPT ![r] = "record"]
  /\ UNCHANGED <<cfgvars, codecvars, idx, device, psnrs, aads, ssims, atts,
                 masks, result_dict, report, artifacts, lookups, windows, err>>

\* line 223: an exception of the engine propagates, nothing catches it
InferRaises(r) ==
  /\ pc[r] = "infer"
  /\ pc' = [pc EXCEPT ![r] = "aborted"]
  /\ err' = [err EXCEPT ![r] = "engine"]
  /\ UNCHANGED <<cfgvars, codecvars, idx, device, psnrs, aads, ssims, atts,
                 masks, result_dict, report, artifacts, lookups, windows>>

\* lines 227-258 and the loop step of line 189
Record(r) ==
  /\ pc[r] = "record"
  /\ psnrs' = [psnrs EXCEPT ![r] = Append(@, idx[r])]
  /\ aads' = [aads EXCEPT ![r] = Append(@, idx[r])]
  /\ ssims' = [ssims EXCEPT ![r] = Append(@, idx[r])]
  /\ atts' = [atts EXCEPT ![r] = Append(@, idx[r])]
  /\ artifacts' = [artifacts EXCEPT ![r] = @ \cup {idx[r]}]
  /\ result_dict' = [result_dict EXCEPT ![r] =
        ResultDict(r, psnrs'[r], aads'[r], ssims'[r], atts'[r])]
  /\ idx' = [idx EXCEPT ![r] = @ + world_size]
  /\ pc' = [pc EXCEPT ![r] = LoopPc(idx[r] + world_size)]
  /\ UNCHANGED <<cfgvars, codecvars, device, masks, report, lookups,
                 windows, err>>

\* lines 261-264 when result_dict was never bound: NameError
WriteReportNameError(r) ==
  /\ pc[r] = "report"
  /\ ~result_dict[r].defined
  /\ pc' = [pc EXCEPT ![r] = "aborted"]
  /\ err' = [err EXCEPT ![r] = "name"]
  /\ UNCHANGED <<cfgvars, codecvars, idx, device, psnrs, aads, ssims, atts,
                 masks, result_dict, report, artifacts, lookups, windows>>

\* lines 261-264: the mask column is added and the table written
WriteReport(r) ==
  /\ pc[r] = "report"
  /\ result_dict[r].defined
  /\ report' = [report EXCEPT ![r] =
        [defined |-> TRUE,
         psnr |-> result_dict[r].psnr, aad |-> result_dict[r].aad,
         ssim |-> result_dict[r].ssim, att |-> result_dict[r].att,
         mask |-> masks[r]]]
  /\ pc' = [pc EXCEPT ![r] = "done"]
  /\ UNCHANGED <<cfgvars, codecvars, idx, device, psnrs, aads, ssims, atts,
                 masks, result_dict, artifacts, lookups, windows, err>>

\* ------------------------------------------------------------ tensor2img
\* int(math.sqrt(n)), line 54
ISqrt(n) == CHOOSE k \in 0 .. n : k * k <= n /\ (k + 1) * (k + 1) > n

\* _tensor.squeeze(0), line 49: a leading dimension of extent 1 is dropped
Squeeze0(s) == IF Len(s) >= 1 /\ s[1] = 1 THEN Tail(s) ELSE s

NoArray == [tag |-> "none", shape |-> <<>>, cols |-> 0]

\* lines 53-57: make_grid(_tensor, nrow=int(math.sqrt(B))) lays the B images
\* out with min(nrow, B) images per row
Grid(t) == [tag |-> "grid", shape |-> <<>>, cols |-> Min(ISqrt(t[1]), t[1])]

\* lines 58-65: C x H x W becomes H x W x C, squeezed to H x W when C = 1
Image3(t) == [tag |-> "array",
              shape |-> IF t[1] = 1 THEN <<t[2], t[3]>> ELSE <<t[2], t[3], t[1]>>,
              cols |-> 0]

\* lines 49-69: the body of the loop for one tensor of shape s
Tensor2ImgOne(s) ==
  LET t == Squeeze0(s)
      n_dim == Len(t)
  IN  IF n_dim = 4 THEN Grid(t)
      ELSE IF n_dim = 3 THEN Image3(t)
      ELSE IF n_dim = 2 THEN [tag |-> "array", shape |-> t, cols |-> 0]
      ELSE [tag |-> "TypeError", shape |-> <<>>, cols |-> 0]

RECURSIVE ShapesOfRank(_)
ShapesOfRank(n) ==
  IF n = 0 THEN {<<>>}
  ELSE {<<d>> \o s : d \in 1 .. MaxDim, s \in ShapesOfRank(n - 1)}

\* the tensor shapes explored
Shapes == UNION {ShapesOfRank(n) : n \in 0 .. MaxRank}

\* line 42-46: the type check, and a single tensor is wrapped in a list
TypeCheck ==
  /\ t_pc = "call"
  /\ t_kind \in {"tensor", "list"}
  /\ t_pc' = "loop"
  /\ UNCHANGED <<cfgvars, runvars, t_kind, t_len, t_cur, t_out, t_result>>

\* line 43: neither a tensor nor a list of tensors
TypeCheckRaises ==
  /\ t_pc = "call"
  /\ t_kind \notin {"tensor", "list"}
  /\ t_pc' = "raised"
  /\ UNCHANGED <<cfgvars, runvars, t_kind, t_len, t_cur, t_out, t_result>>

\* lines 48-74: one iteration of the loop over the tensors
ConvertTensor ==
  /\ t_pc = "loop"
  /\ Len(t_result) < t_len
  /\ \E s \in Shapes :
       /\ t_cur' = s
       /\ t_out' = Tensor2ImgOne(s)
       /\ IF Tensor2ImgOne(s).tag = "TypeError"
          THEN t_pc' = "raised" /\ t_result' = t_result
          ELSE t_pc' = "loop" /\ t_result' = Append(t_result, Tensor2ImgOne(s))
  /\ UNCHANGED <<cfgvars, runvars, t_kind, t_len>>

\* lines 75-77
Return ==
  /\ t_pc = "loop"
  /\ Len(t_result) = t_len
  /\ t_pc' = "done"
  /\ UNCHANGED <<cfgvars, runvars, t_kind, t_len, t_cur, t_out, t_result>>

CodecIdle ==
  /\ t_kind = "tensor" /\ t_len = 1 /\ t_pc = "idle"
  /\ t_cur = <<>> /\ t_out = NoArray /\ t_result = <<>>

Init ==
  /\ len_dataset \in 1 .. MaxN
  /\ lo_frame_sep \in 1 .. MaxSep
  /\ hi_frame_sep \in 1 .. MaxSep
  /\ gt_size2 \in 0 .. (MaxN + 1)
  /\ world_size \in 1 .. MaxWorld
  /\ cuda_available \in BOOLEAN
  /\ att_width \in AttWidths
  /\ pc = [r \in Ranks |-> "place"]
  /\ idx = [r \in Ranks |-> 0]
  /\ device = [r \in Ranks |-> "cpu"]
  /\ psnrs = [r \in Ranks |-> <<>>]
  /\ aads = [r \in Ranks |-> <<>>]
  /\ ssims = [r \in Ranks |-> <<>>]
  /\ atts = [r \in Ranks |-> <<>>]
  /\ masks = [r \in Ranks |-> <<>>]
  /\ result_dict = [r \in Ranks |-> None]
  /\ report = [r \in Ranks |-> None]
  /\ artifacts = [r \in Ranks |-> {}]
  /\ lookups = [r \in Ranks |-> {}]
  /\ windows = [r \in Ranks |-> <<>>]
  /\ err = [r \in Ranks |-> "none"]
  /\ CodecIdle

Next ==
  \/ \E r \in Ranks : PlaceModel(r)
  \/ \E r \in Ranks : BuildWindowNoCuda(r)
  \/ \E r \in Ranks : BuildWindowIndexError(r)
  \/ \E r \in Ranks : BuildWindow(r)
  \/ \E r \in Ranks : Infer(r)
  \/ \E r \in Ranks : InferRaises(r)
  \/ \E r \in Ranks : Record(r)
  \/ \E r \in Ranks : WriteReportNameError(r)
  \/ \E r \in Ranks : WriteReport(r)

Spec == Init /\ [][Next]_vars

\* the worker before it starts, in one fixed configuration
RunIdle ==
  /\ len_dataset = 1 /\ lo_frame_sep = 1 /\ hi_frame_sep = 1 /\ gt_size2 = 0
  /\ world_size = 1 /\ cuda_available = TRUE /\ att_width = 4
  /\ pc = [r \in Ranks |-> "place"]
  /\ idx = [r \in Ranks |-> 0]
  /\ device = [r \in Ranks |-> "cpu"]
  /\ psnrs = [r \in Ranks |-> <<>>]
  /\ aads = [r \in Ranks |-> <<>>]
  /\ ssims = [r \in Ranks |-> <<>>]
  /\ atts = [r \in Ranks |-> <<>>]
  /\ masks = [r \in Ranks |-> <<>>]
  /\ result_dict = [r \in Ranks |-> None]
  /\ report = [r \in Ranks |-> None]
  /\ artifacts = [r \in Ranks |-> {}]
  /\ lookups = [r \in Ranks |-> {}]
  /\ windows = [r \in Ranks |-> <<>>]
  /\ err = [r \in Ranks |-> "none"]

\* a call of tensor2img: a tensor, a list of tensors, a list holding
\* something else, or another object
InitCodec ==
  /\ RunIdle
  /\ t_kind \in {"tensor", "list", "bad_list", "other"}
  /\ t_len \in 0 .. MaxList
  /\ t_kind = "tensor" => t_len = 1
  /\ t_kind = "bad_list" => t_len >= 1
  /\ t_kind = "other" => t_len = 0
  /\ t_pc = "call"
  /\ t_cur = <<>> /\ t_out = NoArray /\ t_result = <<>>

NextCodec == TypeCheck \/ TypeCheckRaises \/ ConvertTensor \/ Return

SpecCodec == InitCodec /\ [][NextCodec]_vars

\* ================================================================ claims
Clamp(x, lo, hi) == IF x < lo THEN lo ELSE IF x > hi THEN hi ELSE x

\* the indices r+1, r+1+W, ... below N
StrideSet(r) ==
  {i \in 0 .. (len_dataset - 1) : i >= r + 1 /\ (i - (r + 1)) % world_size = 0}

StrideSeq(r) ==
  [k \in 1 .. Cardinality(StrideSet(r)) |-> r + 1 + (k - 1) * world_size]

IsPrefix(a, b) ==
  /\ Len(a) <= Len(b)
  /\ \A k \in 1 .. Len(a) : a[k] = b[k]

Rows(q) == {q[k] : k \in 1 .. Len(q)}

\* C1: every low-resolution triple is fetched from
\* (clamp(idx-loSep,0,N-1), idx, clamp(idx+loSep,0,N-1)), in that order, for
\* every index of the Sequence and for every window a worker has built.
C1_LowResTripleClamped ==
  /\ \A i \in 0 .. (len_dataset - 1) :
       /\ LqPrev(i) = Clamp(i - lo_frame_sep, 0, len_dataset - 1)
       /\ LqNext(i) = Clamp(i + lo_frame_sep, 0, len_dataset - 1)
  /\ \A r \in Ranks : \A k \in 1 .. Len(windows[r]) :
       LET w == windows[r][k]
       IN  w.lq = <<Clamp(w.idx - lo_frame_sep, 0, len_dataset - 1),
                    w.idx,
                    Clamp(w.idx + lo_frame_sep, 0, len_dataset - 1)>>

\* N=7, loSep=2: the window of idx=6 was fetched from (4,6,6)
C1_Witness ==
  /\ len_dataset = 7 /\ lo_frame_sep = 2
  /\ \E r \in Ranks : \E k \in 1 .. Len(windows[r]) :
       windows[r][k].idx = 6 /\ windows[r][k].lq = <<4, 6, 6>>

\* C2: the high-resolution pair of every window is (blkStart, blkEnd) with
\* blkStart = floor(idx/(2*hiSep))*(2*hiSep), a multiple of 2*hiSep with
\* blkStart <= idx < blkStart + 2*hiSep, and
\* blkEnd = min(maxValidHiIndex, blkStart + 2*hiSep).
C2_HiResPair ==
  /\ \A i \in 0 .. (len_dataset - 1) :
       LET blk == 2 * hi_frame_sep
       IN  /\ BlkStart(i) = (i \div blk) * blk
           /\ BlkEnd(i) = Min(gt_size2, BlkStart(i) + blk)
  /\ \A r \in Ranks : \A k \in 1 .. Len(windows[r]) :
       LET w == windows[r][k]
           blk == 2 * hi_frame_sep
           blkStart == w.hq[1]
       IN  /\ blkStart % blk = 0
           /\ blkStart <= w.idx
           /\ w.idx < blkStart + blk
           /\ w.hq[2] = Min(gt_size2, blkStart + blk)

\* a window strictly inside a block of length 4, paired with (0, 4)
C2_Witness ==
  /\ hi_frame_sep = 2
  /\ \E r \in Ranks : \E k \in 1 .. Len(windows[r]) :
       windows[r][k].idx = 2 /\ windows[r][k].hq = <<0, 4>>

\* C3: every Frame Source lookup a worker makes uses an index in 0..N-1.
C3_LookupsInRange ==
  \A r \in Ranks : \A i \in lookups[r] : i \in 0 .. (len_dataset - 1)

\* C4: the boundary flag appended for idx is 1 exactly when idx = blkStart
\* or idx = clamp(idx+loSep, 0, N-1), else 0.
C4_BoundaryFlag ==
  /\ \A i \in 0 .. (len_dataset - 1) :
       Mask(i) = 1 <=>
         \/ i = (i \div (2 * hi_frame_sep)) * (2 * hi_frame_sep)
         \/ i = Clamp(i + lo_frame_sep, 0, len_dataset - 1)
  /\ \A r \in Ranks :
       /\ Len(masks[r]) = Len(windows[r])
       /\ \A k \in 1 .. Len(masks[r]) :
            LET i == windows[r][k].idx
                blk == 2 * hi_frame_sep
                onEdge == \/ i = (i \div blk) * blk
                          \/ i = Clamp(i + lo_frame_sep, 0, len_dataset - 1)
            IN  masks[r][k] = IF onEdge THEN 1 ELSE 0

\* N=7, loSep=2, hiSep=2: idx=6 is flagged although it is no block start,
\* and an earlier index of the same worker is not flagged
C4_Witness ==
  /\ len_dataset = 7 /\ lo_frame_sep = 2 /\ hi_frame_sep = 2
  /\ \E r \in Ranks : \E k, j \in 1 .. Len(masks[r]) :
       /\ windows[r][k].idx = 6 /\ masks[r][k] = 1
       /\ masks[r][j] = 0

\* C5: an index that is a block start, or one of whose low-resolution
\* neighbours (idx-loSep, idx+loSep) was clamped to an edge, is flagged 1.
C5_ClampedEdgesFlagged ==
  \A r \in Ranks : \A k \in 1 .. Len(masks[r]) :
    LET i == windows[r][k].idx
    IN  (\/ i = windows[r][k].hq[1]
         \/ i - lo_frame_sep < 0
         \/ i + lo_frame_sep > len_dataset - 1) => masks[r][k] = 1

\* what one worker owns
WorkerState(r) ==
  <<pc[r], idx[r], device[r], psnrs[r], aads[r], ssims[r], atts[r], masks[r],
    result_dict[r], report[r], artifacts[r], lookups[r], windows[r], err[r]>>

C6_StrideInv ==
  /\ \A r \in Ranks :
       /\ IsPrefix(psnrs[r], StrideSeq(r))
       /\ \A k \in 1 .. Len(windows[r]) :
            windows[r][k].idx = r + 1 + (k - 1) * world_size
       /\ pc[r] = "done" => psnrs[r] = StrideSeq(r)
  /\ \A r, q \in Ranks :
       r # q => {windows[r][k].idx : k \in 1 .. Len(windows[r])}
                  \cap {windows[q][k].idx : k \in 1 .. Len(windows[q])} = {}

C6_StepOwned ==
  /\ cfgvars' = cfgvars
  /\ \E r \in Ranks : \A q \in Ranks \ {r} : WorkerState(q)' = WorkerState(q)

C7_ReportInv ==
  \A r \in Ranks :
    /\ report[r].defined =>
         /\ pc[r] = "done"
         /\ report[r].psnr = StrideSeq(r)
         /\ report[r].aad = StrideSeq(r)
         /\ report[r].ssim = StrideSeq(r)
         /\ report[r].att = StrideSeq(r)
         /\ Len(report[r].mask) = Len(report[r].psnr)
         /\ artifacts[r] = StrideSet(r)
         /\ \A k \in 1 .. (Len(report[r].psnr) - 1) :
              report[r].psnr[k] < report[r].psnr[k + 1]
    /\ pc[r] = "aborted" => ~report[r].defined

C7_ReportStep ==
  \A r \in Ranks :
    /\ report[r].defined => report'[r] = report[r]
    /\ IsPrefix(psnrs[r], psnrs'[r])
    /\ IsPrefix(aads[r], aads'[r])
    /\ IsPrefix(ssims[r], ssims'[r])
    /\ IsPrefix(atts[r], atts'[r])
    /\ IsPrefix(masks[r], masks'[r])

\* C7: the report is written at most once, only after the whole stride was
\* processed; it then holds one row per processed index in ascending order
\* with all columns of that length; records are only appended; an aborted
\* run has no report.
C7_ReportOnceComplete == [] C7_ReportInv /\ [][C7_ReportStep]_vars

\* a report of at least three rows has been written
C7_Witness ==
  \E r \in Ranks : report[r].defined /\ Len(report[r].psnr) >= 3

\* C8: without accelerated execution the run does not fail for want of it.
C8_NoGpuRunContinues ==
  ~cuda_available => \A r \in Ranks : err[r] # "cuda"

CeilSqrt(n) == CHOOSE k \in 0 .. n : k * k >= n /\ (k = 0 \/ (k - 1) * (k - 1) < n)

\* C9: tensor2img tiles a 4-D tensor of batch size B into ceil(sqrt(B))
\* columns, turns a 3-D tensor into one image that is 2-D iff it has one
\* channel, passes every 2-D tensor through, and raises TypeError exactly
\* for a non-tensor argument or a dimensionality other than 2, 3, 4.
C9_Tensor2ImgDispatch ==
  /\ (t_pc = "raised" /\ t_out.tag = "none") <=>
       (t_pc # "call" /\ t_kind \notin {"tensor", "list"})
  /\ t_out.tag # "none" =>
       LET n == Len(t_cur)
       IN  /\ n = 4 => \/ t_out.tag = "grid" /\ t_out.cols = CeilSqrt(t_cur[1])
                       \/ t_cur[1] = 1 /\ t_out.tag = "array"
           /\ n = 3 => /\ t_out.tag = "array"
                       /\ (Len(t_out.shape) = 2 <=> t_cur[1] = 1)
           /\ n = 2 => t_out.tag = "array" /\ t_out.shape = t_cur
           /\ t_out.tag = "TypeError" <=> n \notin {2, 3, 4}

\* C10: once every worker is done, every index 0..N-1 has been processed by
\* exactly one worker and the reports together hold N rows.
C10_FullSequenceCovered ==
  (\A r \in Ranks : pc[r] = "done") =>
    \A i \in 0 .. (len_dataset - 1) :
      Cardinality({r \in Ranks : i \in Rows(report[r].psnr)}) = 1
====
